---- MODULE Spec2Model ----
(***************************************************************************)
(* Trust Region Policy Optimization (garage.torch.algos.trpo.TRPO).        *)
(*                                                                         *)
(* TRPO is a VPG trainer whose optimizer is a ConjugateGradientOptimizer.   *)
(* The module models the three methods of the class:                       *)
(*   __init__            builds the optimizer descriptor and forwards the  *)
(*                       remaining arguments to the base trainer;          *)
(*   _compute_objective  the likelihood-ratio surrogate;                   *)
(*   _optimize           one optimizer.step call with two closures.        *)
(* The base trainer, the policy and the optimizer are collaborators whose  *)
(* code is outside trpo.py; they are modelled from their interfaces: the   *)
(* base trainer samples a batch, calls _optimize and then copies the       *)
(* policy's parameters to the old policy; the optimizer's step searches    *)
(* over trial parameters, evaluating the closures, and keeps a trial only  *)
(* when the constraint closure's value is within max_constraint_value.     *)
(*                                                                         *)
(* Numbers.  Log-likelihoods are integers in units of ln 2, so that        *)
(* exp(d) is the power of two 2^d.  A real number r is held as the integer *)
(* r * 2^Scale (fixed point); Scale is large enough for every ratio the    *)
(* model can produce to be exact.  KL values and max_kl_step are integers  *)
(* in units of 0.01; discount and gae_lambda likewise.                     *)
(***************************************************************************)
EXTENDS Integers, Sequences, FiniteSets, TLC

VARIABLES
    pc,            \* position of the trainer: "new", "idle", "sampled",
                   \* "optimize", "step_entry", "step", "optimized", "failed"
    init_kwargs,   \* the keyword arguments TRPO(...) was called with
    super_kwargs,  \* the keyword arguments VPG.__init__ received
    _optimizer,    \* self._optimizer: [cls, max_constraint_value]
    policy,        \* parameters of self.policy
    _old_policy,   \* parameters of self._old_policy
    itr,           \* training iteration
    batch,         \* (paths, valids, obs, actions, rewards, baselines) in use
    objective,     \* the last _compute_objective call and its outcome
    step_calls,    \* optimizer.step calls made by the running/last _optimize
    step_args,     \* keyword arguments of that step call (the two closures)
    evals,         \* closure evaluations made inside that step call
    changes,       \* parameter writes during the running/last _optimize
    saved,         \* the optimizer's copy of the parameters at step entry
    trials,        \* trial updates made in the running/last step call
    todo,          \* the calls the running _optimize has still to make
    step_outcome,  \* how optimizer.step ended
    outcome        \* how the last _optimize ended

vars == <<pc, init_kwargs, super_kwargs, _optimizer, policy, _old_policy, itr,
          batch, objective, step_calls, step_args, evals, changes, saved,
          trials, todo, step_outcome, outcome>>

----------------------------------------------------------------------------
(* Bounds of the model. *)

NumPaths == 2        \* paths in a batch
MaxParam == 1        \* policy parameters range over 0..MaxParam
MaxKlStep == 2       \* max_kl_step values range over 0..MaxKlStep
MaxTrials == 1       \* trial updates the optimizer makes in one step
MaxItr == 2          \* training iterations
MaxOverrides == 2    \* optional constructor arguments given explicitly

None == "None"

Max(S) == CHOOSE x \in S : \A y \in S : y <= x

RECURSIVE SumOver(_, _)
SumOver(S, f) ==
    IF S = {} THEN 0
    ELSE LET x == CHOOSE y \in S : TRUE IN f[x] + SumOver(S \ {x}, f)

----------------------------------------------------------------------------
(* TRPO.__init__ *)

RequiredNames == {"env_spec", "policy", "baseline"}

OptionalNames ==
    {"max_path_length", "num_train_per_epoch", "discount", "gae_lambda",
     "center_adv", "positive_adv", "policy_ent_coeff", "max_kl_step",
     "use_softplus_entropy", "stop_entropy_gradient", "entropy_method"}

ParamNames == RequiredNames \cup OptionalNames

\* max_kl_step=0.01, in units of 0.01
DefaultMaxKlStep == 1

\* the defaults of the signature (discount=0.99 and gae_lambda=0.98 in units
\* of 0.01, policy_ent_coeff=0.0 as 0)
Defaults ==
    [max_path_length |-> 100,
     num_train_per_epoch |-> 1,
     discount |-> 99,
     gae_lambda |-> 98,
     center_adv |-> TRUE,
     positive_adv |-> FALSE,
     policy_ent_coeff |-> 0,
     max_kl_step |-> DefaultMaxKlStep,
     use_softplus_entropy |-> FALSE,
     stop_entropy_gradient |-> FALSE,
     entropy_method |-> "no_entropy"]

ParamValues == 0..MaxParam

\* the values a caller passes for each argument; a policy object is
\* identified with its parameters
ArgValues(n) ==
    CASE n = "env_spec" -> {"env_spec"}
      [] n = "policy" -> ParamValues
      [] n = "baseline" -> {"baseline"}
      [] n = "max_path_length" -> {100, 50}
      [] n = "num_train_per_epoch" -> {1, 2}
      [] n = "discount" -> {99, 90}
      [] n = "gae_lambda" -> {98, 100}
      [] n = "center_adv" -> BOOLEAN
      [] n = "positive_adv" -> BOOLEAN
      [] n = "policy_ent_coeff" -> {0, 1}
      [] n = "max_kl_step" -> 0..MaxKlStep
      [] n = "use_softplus_entropy" -> BOOLEAN
      [] n = "stop_entropy_gradient" -> BOOLEAN
      [] n = "entropy_method" -> {"no_entropy", "max", "regularized"}

\* every assignment of values to the arguments in `names`
RECURSIVE KwargsOver(_)
KwargsOver(names) ==
    IF names = {} THEN {[n \in {} |-> None]}
    ELSE LET n == CHOOSE x \in names : TRUE
         IN  {f @@ (n :> v) : f \in KwargsOver(names \ {n}), v \in ArgValues(n)}

\* the calls TRPO(**kw) that give the required arguments and at most `most`
\* of the optional arguments in `optional`
CtorCalls(optional, most) ==
    UNION {KwargsOver(RequiredNames \cup O) :
           O \in {X \in SUBSET optional : Cardinality(X) <= most}}

\* the parameters of __init__ after the call's arguments and the defaults
\* are bound
BindArguments(kw) ==
    [n \in ParamNames |-> IF n \in DOMAIN kw THEN kw[n] ELSE Defaults[n]]

\* a descriptor that ignores the argument
optimizer_default_kl(max_kl_step) ==
    [cls |-> "ConjugateGradientOptimizer",
     kwargs |-> [max_constraint_value |-> DefaultMaxKlStep]]

\* optimizer = (ConjugateGradientOptimizer, {'max_constraint_value': max_kl_step})
optimizer(max_kl_step) ==
    [cls |-> "ConjugateGradientOptimizer",
     kwargs |-> [max_constraint_value |-> max_kl_step]]

\* the names passed on to super().__init__ under their own name
ForwardedNames ==
    {"env_spec", "policy", "baseline", "max_path_length",
     "num_train_per_epoch", "discount", "gae_lambda", "center_adv",
     "positive_adv", "policy_ent_coeff", "use_softplus_entropy",
     "stop_entropy_gradient", "entropy_method"}

\* a call with center_adv and positive_adv exchanged
SuperKwargsSwappedAdv(a) ==
    [n \in ForwardedNames \cup {"optimizer"} |->
        IF n = "optimizer" THEN optimizer(a["max_kl_step"])
        ELSE IF n = "center_adv" THEN a["positive_adv"]
        ELSE IF n = "positive_adv" THEN a["center_adv"]
        ELSE a[n]]

\* super().__init__(env_spec=env_spec, ..., optimizer=optimizer, ...)
SuperKwargs(a) ==
    [n \in ForwardedNames \cup {"optimizer"} |->
        IF n = "optimizer" THEN optimizer(a["max_kl_step"])
        ELSE a[n]]

\* the base trainer instantiates the descriptor: cls(**kwargs)
make_optimizer(descriptor) ==
    [cls |-> descriptor.cls,
     max_constraint_value |-> descriptor.kwargs.max_constraint_value]

----------------------------------------------------------------------------
(* Sampled paths and the padded batch the base trainer makes of them. *)

Step(o, a, r, b) == [obs |-> o, action |-> a, reward |-> r, baseline |-> b]

\* the recorded paths a batch is drawn from; observations and actions are
\* 0 or 1
Trajectories ==
    {<<Step(1, 1, 1, 0)>>,
     <<Step(1, 0, 0, 1), Step(0, 1, 2, 0)>>,
     <<Step(1, 1, -1, 0), Step(1, 0, 1, 1)>>}

PathIds == 1..NumPaths

PadLength == Max({Len(tr) : tr \in Trajectories})

Times == 1..PadLength

Index == PathIds \X Times

\* a padded tensor of one field of the paths: zero past the end of a path
Padded(paths, field) ==
    [p \in PathIds |-> [t \in Times |->
        IF t <= Len(paths[p]) THEN paths[p][t][field] ELSE 0]]

Tensor(v, r) == [val |-> v, requires |-> r]

\* process_samples: the arguments _optimize is called with
process_samples(paths) ==
    [paths |-> paths,
     valids |-> [p \in PathIds |-> Len(paths[p])],
     obs |-> Tensor(Padded(paths, "obs"), {}),
     actions |-> Tensor(Padded(paths, "action"), {}),
     rewards |-> Tensor(Padded(paths, "reward"), {}),
     baselines |-> Tensor(Padded(paths, "baseline"), {})]

NoBatch == [paths |-> None]

----------------------------------------------------------------------------
(* Tensor arithmetic.  The gradient graph of a result is the union of the  *)
(* graphs of its operands: `requires` names the modules whose parameters   *)
(* the tensor is differentiable in.                                        *)

\* every log-likelihood difference lies in -Scale..Scale
Scale == 2 * (MaxParam + 1) * (MaxParam + 1)

\* 1.0 in fixed point
One == 2 ^ Scale

TensorSub(x, y) ==
    Tensor([p \in PathIds |-> [t \in Times |-> x.val[p][t] - y.val[p][t]]],
           x.requires \cup y.requires)

\* exp of a tensor of multiples of ln 2, in fixed point
TensorExp(x) ==
    Tensor([p \in PathIds |-> [t \in Times |-> 2 ^ (x.val[p][t] + Scale)]],
           x.requires)

TensorMul(x, y) ==
    Tensor([p \in PathIds |-> [t \in Times |-> x.val[p][t] * y.val[p][t]]],
           x.requires \cup y.requires)

----------------------------------------------------------------------------
(* The policy: for observation 0 every action has a likelihood that does   *)
(* not depend on the parameter; for observation 1 the actions are normally *)
(* distributed around the parameter, so that the log-likelihood of an      *)
(* action falls with twice its squared distance from the parameter and the *)
(* KL divergence of two policies is twice the squared distance of their    *)
(* parameters.                                                             *)

Module(name, params) == [name |-> name, params |-> params]

\* log-likelihood of one (obs, action) pair, in units of ln 2
LL(theta, o, a) == 0 - 2 * (a - theta * o) * (a - theta * o)

\* module.log_likelihood(obs, actions) under gradient mode grad_enabled
log_likelihood(module, obs, actions, grad_enabled) ==
    Tensor([p \in PathIds |-> [t \in Times |->
               LL(module.params, obs.val[p][t], actions.val[p][t])]],
           IF grad_enabled THEN {module.name} ELSE {})

\* KL divergence of the two policies' action distributions at one observation
Divergence(theta_old, theta_new, o) ==
    2 * (theta_new - theta_old) * (theta_new - theta_old) * o

----------------------------------------------------------------------------
(* TRPO._compute_objective *)

Self == [policy |-> Module("policy", policy),
         _old_policy |-> Module("_old_policy", _old_policy)]

\* torch's gradient mode outside a no_grad block
GradEnabled == TRUE

Return(v) == [kind |-> "return", value |-> v]

Raise(e) == [kind |-> "raise", exc |-> e]

Errors == {"RuntimeError", "ValueError"}

\* what the collaborators do during one closure evaluation: for the old
\* policy's log_likelihood, the current policy's log_likelihood and the KL
\* computation, None or the exception raised (the first failure ends the
\* evaluation)
NoFault == [old |-> None, new |-> None, kl |-> None]

Faults ==
    {NoFault}
        \cup {[NoFault EXCEPT !.old = e] : e \in Errors}
        \cup {[NoFault EXCEPT !.new = e] : e \in Errors}
        \cup {[NoFault EXCEPT !.kl = e] : e \in Errors}

\* old_ll computed outside the no_grad block
old_ll_tracked(self, obs, actions) ==
    log_likelihood(self._old_policy, obs, actions, GradEnabled)

\* with torch.no_grad(): old_ll = self._old_policy.log_likelihood(obs, actions)
old_ll(self, obs, actions) ==
    log_likelihood(self._old_policy, obs, actions, FALSE)

\* new_ll = self.policy.log_likelihood(obs, actions)
new_ll(self, obs, actions) ==
    log_likelihood(self.policy, obs, actions, GradEnabled)

\* the likelihood instead of the ratio
likelihood_ratio_no_old(new, old) == TensorExp(new)

\* the ratio of old to new
likelihood_ratio_inverted(new, old) == TensorExp(TensorSub(old, new))

\* likelihood_ratio = (new_ll - old_ll).exp()
likelihood_ratio(new, old) == TensorExp(TensorSub(new, old))

\* surrogate = likelihood_ratio * advantages
surrogate(ratio, advantages) == TensorMul(ratio, advantages)

\* the surrogate with the padding past each path's valid length zeroed
_compute_objective_masked(self, advantages, valids, obs, actions, rewards, fault) ==
    IF fault.old # None THEN Raise(fault.old)
    ELSE IF fault.new # None THEN Raise(fault.new)
    ELSE LET s == surrogate(likelihood_ratio(new_ll(self, obs, actions),
                                            old_ll(self, obs, actions)),
                            advantages)
         IN  Return(Tensor([p \in PathIds |-> [t \in Times |->
                               IF t <= valids[p] THEN s.val[p][t] ELSE 0]],
                           s.requires))

\* def _compute_objective(self, advantages, valids, obs, actions, rewards)
_compute_objective(self, advantages, valids, obs, actions, rewards, fault) ==
    IF fault.old # None THEN Raise(fault.old)
    ELSE IF fault.new # None THEN Raise(fault.new)
    ELSE Return(surrogate(likelihood_ratio(new_ll(self, obs, actions),
                                          old_ll(self, obs, actions)),
                          advantages))

----------------------------------------------------------------------------
(* The base trainer's loss and KL constraint, which the closures call. *)

\* advantage estimates of a batch
Advantages(rewards, baselines) == TensorSub(rewards, baselines)

\* the _compute_objective call compute_loss makes
ObjectiveOf(self, b, fault) ==
    _compute_objective(self, Advantages(b.rewards, b.baselines), b.valids,
                       b.obs, b.actions, b.rewards, fault)

\* compute_loss: minus the sum of the objective over the valid steps (the
\* mean times the number of valid steps)
compute_loss(self, b, fault) ==
    LET o == ObjectiveOf(self, b, fault)
    IN  IF o.kind = "raise" THEN o
        ELSE Return(Tensor(
                 0 - SumOver({i \in Index : i[2] <= b.valids[i[1]]},
                             [i \in Index |-> o.value.val[i[1]][i[2]]]),
                 o.value.requires))

\* _compute_kl_constraint: the mean over the flattened observations of the
\* divergence between old and current policy, as [sum, count]
_compute_kl_constraint(self, obs, fault) ==
    IF fault.kl # None THEN Raise(fault.kl)
    ELSE Return([sum |-> SumOver(Index, [i \in Index |->
                            Divergence(self._old_policy.params, self.policy.params,
                                       obs.val[i[1]][i[2]])]),
                 count |-> Cardinality(Index)])

----------------------------------------------------------------------------
(* TRPO._optimize *)

Closure(fn, args) == [fn |-> fn, args |-> args]

\* the two closures exchanged
StepKwargsSwapped(i, paths, valids, obs, actions, rewards, baselines) ==
    [f_loss |-> Closure("_compute_kl_constraint", [obs |-> obs]),
     f_constraint |-> Closure("compute_loss",
                    [itr |-> i, paths |-> paths, valids |-> valids, obs |-> obs,
                     actions |-> actions, rewards |-> rewards,
                     baselines |-> baselines])]

\* f_loss=lambda: self.compute_loss(itr, paths, valids, obs, actions, rewards,
\*                                  baselines),
\* f_constraint=lambda: self._compute_kl_constraint(obs)
StepKwargs(i, paths, valids, obs, actions, rewards, baselines) ==
    [f_loss |-> Closure("compute_loss",
                    [itr |-> i, paths |-> paths, valids |-> valids, obs |-> obs,
                     actions |-> actions, rewards |-> rewards,
                     baselines |-> baselines]),
     f_constraint |-> Closure("_compute_kl_constraint", [obs |-> obs])]

\* a body that calls step twice
_optimize_twice(i, paths, valids, obs, actions, rewards, baselines) ==
    LET call == [call |-> "step",
                 kwargs |-> StepKwargs(i, paths, valids, obs, actions, rewards,
                                       baselines)]
    IN  <<call, call>>

\* the calls the body of _optimize makes, in order: one self._optimizer.step
_optimize(i, paths, valids, obs, actions, rewards, baselines) ==
    <<[call |-> "step",
       kwargs |-> StepKwargs(i, paths, valids, obs, actions, rewards, baselines)]>>

\* a closure whose value is that of the parameters at step entry
CallClosureStale(closure, self, fault) ==
    LET then == [self EXCEPT !.policy.params = saved]
    IN  IF closure.fn = "compute_loss"
        THEN compute_loss(then, closure.args, fault)
        ELSE _compute_kl_constraint(then, closure.args.obs, fault)

\* calling one of the lambdas: its body is evaluated on self as it is now
CallClosure(closure, self, fault) ==
    IF closure.fn = "compute_loss"
    THEN compute_loss(self, closure.args, fault)
    ELSE _compute_kl_constraint(self, closure.args.obs, fault)

\* an _optimize that swallows the failure of step
OptimizeOutcomeSwallow(step_result) == Return(None)

\* _optimize has no try and no return statement: a failure of step is its
\* failure, and otherwise it returns None
OptimizeOutcome(step_result) ==
    IF step_result.kind = "raise" THEN step_result ELSE Return(None)

----------------------------------------------------------------------------
(* The state machine. *)

NoOutcome == [kind |-> "none"]

\* one _compute_objective call: self and the log_likelihood faults it ran
\* with, and how it ended
ObjectiveCall(self, fault, result) ==
    [self |-> self, fault |-> [fault EXCEPT !.kl = None], outcome |-> result]

\* no _compute_objective call yet
NoCall == [outcome |-> NoOutcome]

\* the _compute_objective call made when `closure` is evaluated, if any
ObjectiveCallIn(closure, self, fault, before) ==
    IF closure.fn = "compute_loss"
    THEN ObjectiveCall(self, fault, ObjectiveOf(self, closure.args, fault))
    ELSE before

\* one closure evaluation by the optimizer: the keyword it was passed as, the
\* function its body calls, the policy parameters at the call and the result
Evaluation(arg, closure, at, result) ==
    [arg |-> arg, fn |-> closure.fn, at |-> at, result |-> result]

\* v <= k for a value a closure returned: a mean [sum, count] or a scalar
\* tensor in fixed point
AtMost(v, k) ==
    IF "count" \in DOMAIN v THEN v.sum <= k * v.count ELSE v.val <= k * One

Init ==
    /\ pc = "new"
    /\ init_kwargs = None
    /\ super_kwargs = None
    /\ _optimizer = None
    /\ policy = 0
    /\ _old_policy = 0
    /\ itr = 0
    /\ batch = NoBatch
    /\ objective = NoCall
    /\ step_calls = 0
    /\ step_args = None
    /\ evals = <<>>
    /\ changes = {}
    /\ saved = 0
    /\ trials = 0
    /\ todo = <<>>
    /\ step_outcome = NoOutcome
    /\ outcome = NoOutcome

\* TRPO(**kw): __init__ builds the descriptor and calls the base trainer's
\* __init__, which keeps the policy, copies it as the old policy and
\* instantiates the optimizer
Construct(kw) ==
    /\ pc = "new"
    /\ init_kwargs' = kw
    /\ super_kwargs' = SuperKwargs(BindArguments(kw))
    /\ _optimizer' = make_optimizer(super_kwargs'["optimizer"])
    /\ policy' = super_kwargs'["policy"]
    /\ _old_policy' = super_kwargs'["policy"]
    /\ pc' = "idle"
    /\ UNCHANGED <<itr, batch, objective, step_calls, step_args, evals, changes,
                   saved, trials, todo, step_outcome, outcome>>

\* train_once starts: the paths are made into a padded batch
SampleBatch(paths) ==
    /\ pc = "idle"
    /\ itr < MaxItr
    /\ batch' = process_samples(paths)
    /\ pc' = "sampled"
    /\ UNCHANGED <<init_kwargs, super_kwargs, _optimizer, policy, _old_policy, itr,
                   objective, step_calls, step_args, evals, changes, saved,
                   trials, todo, step_outcome, outcome>>

\* the base trainer calls _compute_objective on the batch
CallComputeObjective(fault) ==
    /\ pc = "sampled"
    /\ objective.outcome.kind = "none"
    /\ LET r == ObjectiveOf(Self, batch, fault)
       IN  /\ objective' = ObjectiveCall(Self, fault, r)
           /\ pc' = IF r.kind = "raise" THEN "failed" ELSE pc
    /\ UNCHANGED <<init_kwargs, super_kwargs, _optimizer, policy, _old_policy, itr,
                   batch, step_calls, step_args, evals, changes, saved, trials,
                   todo, step_outcome, outcome>>

\* the base trainer calls _optimize(itr, paths, valids, obs, actions,
\* rewards, baselines)
OptimizeCall ==
    /\ pc = "sampled"
    /\ todo' = _optimize(itr, batch.paths, batch.valids, batch.obs,
                            batch.actions, batch.rewards, batch.baselines)
    /\ step_calls' = 0
    /\ pc' = "optimize"
    /\ UNCHANGED <<init_kwargs, super_kwargs, _optimizer, policy, _old_policy, itr,
                   batch, objective, step_args, evals, changes, saved, trials,
                   step_outcome, outcome>>

\* _optimize calls self._optimizer.step(f_loss=..., f_constraint=...)
CallStep ==
    /\ pc = "optimize"
    /\ step_outcome.kind # "raise"
    /\ todo # <<>>
    /\ step_calls' = step_calls + 1
    /\ step_args' = Head(todo).kwargs
    /\ todo' = Tail(todo)
    /\ saved' = policy
    /\ trials' = 0
    /\ step_outcome' = NoOutcome
    /\ pc' = "step_entry"
    /\ UNCHANGED <<init_kwargs, super_kwargs, _optimizer, policy, _old_policy, itr,
                   batch, objective, evals, changes, outcome>>

\* the optimizer evaluates the loss before it changes any parameter
StepBegin(fault) ==
    /\ pc = "step_entry"
    /\ LET r == CallClosure(step_args.f_loss, Self, fault)
       IN  /\ evals' = Append(evals, Evaluation("f_loss", step_args.f_loss, policy, r))
           /\ step_outcome' = IF r.kind = "raise" THEN r ELSE step_outcome
           /\ pc' = IF r.kind = "raise" THEN "optimize" ELSE "step"
    /\ objective' = ObjectiveCallIn(step_args.f_loss, Self, fault, objective)
    /\ UNCHANGED <<init_kwargs, super_kwargs, _optimizer, policy, _old_policy, itr,
                   batch, step_calls, step_args, changes, saved, trials,
                   todo, outcome>>

\* the optimizer writes trial parameters and evaluates both closures on them
StepTrial(theta, fault) ==
    /\ pc = "step"
    /\ trials < MaxTrials
    /\ policy' = theta
    /\ changes' = changes \cup {pc}
    /\ trials' = trials + 1
    /\ LET now == [Self EXCEPT !.policy.params = theta]
           loss == CallClosure(step_args.f_loss, now, fault)
           constraint == CallClosure(step_args.f_constraint, now, fault)
           first == Evaluation("f_loss", step_args.f_loss, theta, loss)
           second == Evaluation("f_constraint", step_args.f_constraint, theta,
                                constraint)
       IN  IF loss.kind = "raise"
           THEN /\ evals' = Append(evals, first)
                /\ step_outcome' = loss
                /\ pc' = "optimize"
                /\ objective' = ObjectiveCallIn(step_args.f_loss, now, fault,
                                                objective)
           ELSE /\ evals' = Append(Append(evals, first), second)
                /\ step_outcome' = IF constraint.kind = "raise" THEN constraint
                                   ELSE step_outcome
                /\ pc' = IF constraint.kind = "raise" THEN "optimize" ELSE pc
                /\ objective' =
                       ObjectiveCallIn(step_args.f_constraint, now, fault,
                           ObjectiveCallIn(step_args.f_loss, now, fault, objective))
    /\ UNCHANGED <<init_kwargs, super_kwargs, _optimizer, _old_policy, itr, batch,
                   step_calls, step_args, saved, todo, outcome>>

\* the optimizer keeps the trial parameters: the constraint it last evaluated
\* on them is within its bound
StepAccept ==
    /\ pc = "step"
    /\ trials > 0
    /\ LET last == evals[Len(evals)]
       IN  /\ last.arg = "f_constraint"
           /\ last.at = policy
           /\ AtMost(last.result.value, _optimizer.max_constraint_value)
    /\ step_outcome' = Return(None)
    /\ pc' = "optimize"
    /\ UNCHANGED <<init_kwargs, super_kwargs, _optimizer, policy, _old_policy, itr,
                   batch, objective, step_calls, step_args, evals, changes, saved,
                   trials, todo, outcome>>

\* the optimizer gives the search up and restores the parameters it started
\* from
StepReject ==
    /\ pc = "step"
    /\ policy' = saved
    /\ changes' = IF trials > 0 THEN changes \cup {pc} ELSE changes
    /\ step_outcome' = Return(None)
    /\ pc' = "optimize"
    /\ UNCHANGED <<init_kwargs, super_kwargs, _optimizer, _old_policy, itr, batch,
                   objective, step_calls, step_args, evals, saved, trials, todo,
                   outcome>>

\* the optimizer itself fails
StepRaise(e) ==
    /\ pc = "step"
    /\ step_outcome' = Raise(e)
    /\ pc' = "optimize"
    /\ UNCHANGED <<init_kwargs, super_kwargs, _optimizer, policy, _old_policy, itr,
                   batch, objective, step_calls, step_args, evals, changes, saved,
                   trials, todo>>
    /\ UNCHANGED outcome

\* _optimize ends: after its last call, or with the failure of a call
OptimizeEnd ==
    /\ pc = "optimize"
    /\ todo = <<>> \/ step_outcome.kind = "raise"
    /\ outcome' = OptimizeOutcome(step_outcome)
    /\ pc' = IF outcome'.kind = "raise" THEN "failed" ELSE "optimized"
    /\ UNCHANGED <<init_kwargs, super_kwargs, _optimizer, policy, _old_policy, itr,
                   batch, objective, step_calls, step_args, evals, changes, saved,
                   trials, todo, step_outcome>>

\* train_once ends: the old policy takes the current policy's parameters,
\* and the batch and the record of the _optimize call are dropped
FinishTrainOnce ==
    /\ pc = "optimized"
    /\ _old_policy' = policy
    /\ itr' = itr + 1
    /\ batch' = NoBatch
    /\ objective' = NoCall
    /\ step_calls' = 0
    /\ step_args' = None
    /\ evals' = <<>>
    /\ changes' = {}
    /\ saved' = policy
    /\ trials' = 0
    /\ step_outcome' = NoOutcome
    /\ outcome' = NoOutcome
    /\ pc' = "idle"
    /\ UNCHANGED <<init_kwargs, super_kwargs, _optimizer, policy, todo>>

Training ==
    \/ \E paths \in [PathIds -> Trajectories] : SampleBatch(paths)
    \/ \E fault \in Faults : CallComputeObjective(fault)
    \/ OptimizeCall
    \/ CallStep
    \/ \E fault \in Faults : StepBegin(fault)
    \/ \E theta \in ParamValues, fault \in Faults : StepTrial(theta, fault)
    \/ StepAccept
    \/ StepReject
    \/ \E e \in Errors : StepRaise(e)
    \/ OptimizeEnd
    \/ FinishTrainOnce

\* a trainer built with any max_kl_step, and its training iterations
Next ==
    \/ \E kw \in CtorCalls({"max_kl_step"}, 1) : Construct(kw)
    \/ Training

Spec == Init /\ [][Next]_vars

\* construction alone, with any of the optional arguments given
NextInit == \E kw \in CtorCalls(OptionalNames, MaxOverrides) : Construct(kw)

SpecInit == Init /\ [][NextInit]_vars

----------------------------------------------------------------------------
(* Properties. *)

AdvantageAt(i) == batch.rewards.val[i[1]][i[2]] - batch.baselines.val[i[1]][i[2]]

\* the log-likelihood of the batch's i-th (obs, action) pair under theta
LLAt(theta, i) == LL(theta, batch.obs.val[i[1]][i[2]], batch.actions.val[i[1]][i[2]])

Returned(call) == call.outcome.kind = "return"

Sign(x) == IF x > 0 THEN 1 ELSE IF x < 0 THEN 0 - 1 ELSE 0

\* the max_kl_step the trainer was constructed with: the given one, or the
\* default when it was omitted
GivenMaxKlStep ==
    IF "max_kl_step" \in DOMAIN init_kwargs THEN init_kwargs["max_kl_step"]
    ELSE DefaultMaxKlStep

\* C1: when the old and the current policy have the same parameters, every
\* likelihood ratio of _compute_objective is exactly 1 and the surrogate it
\* returns equals the advantages, element for element.
C1_SameParametersGiveAdvantages ==
    (Returned(objective)
        /\ objective.self.policy.params = objective.self._old_policy.params)
    => /\ \A i \in Index :
            likelihood_ratio(
                new_ll(objective.self, batch.obs, batch.actions),
                old_ll(objective.self, batch.obs, batch.actions)
            ).val[i[1]][i[2]] = One
       /\ \A i \in Index :
            objective.outcome.value.val[i[1]][i[2]] = AdvantageAt(i) * One

\* a call with equal parameters, on a pair whose likelihood is not 1 and
\* whose advantage is not 0, has returned
C1_Witness ==
    /\ Returned(objective)
    /\ objective.self.policy.params = objective.self._old_policy.params
    /\ \E i \in Index :
          /\ LLAt(objective.self.policy.params, i) # 0
          /\ AdvantageAt(i) # 0

C3_DescriptorCarriesMaxKlStep ==
    pc # "new" =>
        /\ super_kwargs["optimizer"].cls = "ConjugateGradientOptimizer"
        /\ DOMAIN super_kwargs["optimizer"].kwargs = {"max_constraint_value"}
        /\ super_kwargs["optimizer"].kwargs["max_constraint_value"] = GivenMaxKlStep
        /\ _optimizer.cls = "ConjugateGradientOptimizer"
        /\ _optimizer.max_constraint_value = GivenMaxKlStep

\* a trainer has been constructed with a max_kl_step other than the default
C3_Witness ==
    /\ pc # "new"
    /\ "max_kl_step" \in DOMAIN init_kwargs
    /\ init_kwargs["max_kl_step"] # DefaultMaxKlStep
    /\ _optimizer.max_constraint_value = init_kwargs["max_kl_step"]

\* C4: the surrogate _compute_objective returns is differentiable in the
\* current policy's parameters and carries no gradient dependency on the old
\* policy's parameters, for every batch.
C4_GradientOnlyThroughNewPolicy ==
    Returned(objective) =>
        /\ "policy" \in objective.outcome.value.requires
        /\ "_old_policy" \notin objective.outcome.value.requires

\* a call has returned for policies with different parameters
C4_Witness ==
    /\ Returned(objective)
    /\ objective.self.policy.params # objective.self._old_policy.params
    /\ objective.outcome.value.requires = {"policy"}

\* the arguments of the running/last _optimize call
OptimizeArgs ==
    [itr |-> itr, paths |-> batch.paths, valids |-> batch.valids,
     obs |-> batch.obs, actions |-> batch.actions, rewards |-> batch.rewards,
     baselines |-> batch.baselines]

Started == pc \in {"optimize", "step_entry", "step", "optimized", "failed"}

Ended == outcome.kind # "none"

\* C5: each _optimize call makes exactly one optimizer.step call, with a
\* compute_loss closure as f_loss and a KL-constraint closure as
\* f_constraint; the closures are evaluated and the policy parameters are
\* written only inside that step call.
C5_OneStepCallWithBothClosures ==
    /\ step_calls <= 1
    /\ Ended => step_calls = 1
    /\ step_calls >= 1 =>
          /\ DOMAIN step_args = {"f_loss", "f_constraint"}
          /\ step_args.f_loss.fn = "compute_loss"
          /\ step_args.f_constraint.fn = "_compute_kl_constraint"
    /\ evals # <<>> => step_calls >= 1
    /\ changes \subseteq {"step"}

\* an _optimize call has returned after the optimizer evaluated both closures
\* and changed the parameters
C5_Witness ==
    /\ pc = "optimized"
    /\ step_calls = 1
    /\ policy # saved
    /\ changes = {"step"}
    /\ \E k \in DOMAIN evals : evals[k].arg = "f_constraint"

\* C6: the surrogate _compute_objective returns does not depend on the order
\* of the valids list: with advantages, obs and actions fixed, every
\* permutation of valids gives the same surrogate.
C6_ValidsOrderIrrelevant ==
    Returned(objective) =>
        \A v \in {w \in [PathIds -> Times] :
                    \E f \in Permutations(PathIds) :
                        \A p \in PathIds : w[p] = batch.valids[f[p]]} :
            _compute_objective(objective.self,
                             Advantages(batch.rewards, batch.baselines), v,
                             batch.obs, batch.actions, batch.rewards,
                             objective.fault) = objective.outcome

\* a call has returned for a batch whose paths differ in length, with a
\* nonzero surrogate at a step that is valid in one path only
C6_Witness ==
    /\ Returned(objective)
    /\ \E p, q \in PathIds :
          /\ batch.valids[p] < batch.valids[q]
          /\ objective.outcome.value.val[q][batch.valids[q]] # 0

\* C7: _compute_objective returns, element by element,
\* exp(new_ll - old_ll) * advantage: one value per advantage element, not
\* summed, averaged, negated or masked, with the sign of the advantage.
\* (2^(d + Scale) is exp(d) in fixed point.)
C7_SurrogateIsRatioTimesAdvantage ==
    Returned(objective) =>
        /\ DOMAIN objective.outcome.value.val = PathIds
        /\ \A p \in PathIds : DOMAIN objective.outcome.value.val[p] = Times
        /\ \A i \in Index :
              LET d == LLAt(objective.self.policy.params, i)
                          - LLAt(objective.self._old_policy.params, i)
                  x == objective.outcome.value.val[i[1]][i[2]]
              IN  /\ x = (2 ^ (d + Scale)) * AdvantageAt(i)
                  /\ Sign(x) = Sign(AdvantageAt(i))

\* a call has returned with one ratio above 1 and one below 1, each on a
\* nonzero advantage, one of them negative
C7_Witness ==
    /\ Returned(objective)
    /\ \E i, j \in Index :
          /\ LLAt(objective.self.policy.params, i)
                > LLAt(objective.self._old_policy.params, i)
          /\ LLAt(objective.self.policy.params, j)
                < LLAt(objective.self._old_policy.params, j)
          /\ AdvantageAt(i) # 0
          /\ AdvantageAt(j) < 0

\* the loss of the batch for current parameters theta, from the likelihoods
LossAt(theta) ==
    0 - SumOver({i \in Index : i[2] <= batch.valids[i[1]]},
                [i \in Index |->
                    (2 ^ (LLAt(theta, i) - LLAt(_old_policy, i) + Scale))
                        * AdvantageAt(i)])

\* the KL constraint of the batch's observations for current parameters theta
KlAt(theta) ==
    [sum |-> SumOver(Index, [i \in Index |->
                 Divergence(_old_policy, theta, batch.obs.val[i[1]][i[2]])]),
     count |-> Cardinality(Index)]

\* C8: the closures are evaluated late: every f_loss evaluation is
\* compute_loss on the arguments of that _optimize call and every
\* f_constraint evaluation is the KL constraint on the same obs, both for the
\* policy parameters as they are when the optimizer makes the call.
C8_ClosuresEvaluatedLate ==
    Started =>
        /\ step_calls >= 1 =>
              /\ step_args.f_loss.args = OptimizeArgs
              /\ step_args.f_constraint.args = [obs |-> batch.obs]
        /\ \A k \in DOMAIN evals :
              LET e == evals[k]
              IN  e.result.kind = "return" =>
                     IF e.arg = "f_loss"
                     THEN e.result.value.val = LossAt(e.at)
                     ELSE e.result.value = KlAt(e.at)

\* the optimizer has evaluated a closure before and after it changed the
\* parameters, and got different values
C8_Witness ==
    \E j, k \in DOMAIN evals :
        /\ Started
        /\ j < k
        /\ evals[j].arg = "f_loss"
        /\ evals[k].arg = "f_loss"
        /\ evals[j].result.kind = "return"
        /\ evals[k].result.kind = "return"
        /\ evals[j].at # evals[k].at
        /\ evals[j].result.value.val # evals[k].result.value.val

\* C9: __init__ forwards env_spec, policy, baseline, max_path_length,
\* num_train_per_epoch, discount, gae_lambda, center_adv, positive_adv,
\* policy_ent_coeff, use_softplus_entropy, stop_entropy_gradient and
\* entropy_method to the base trainer under their own names with their values
\* unchanged; max_kl_step is not forwarded by name and reaches the base
\* trainer only inside the optimizer descriptor.
C9_ArgumentsForwardedUnchanged ==
    pc # "new" =>
        /\ DOMAIN super_kwargs =
              {"env_spec", "policy", "baseline", "max_path_length",
               "num_train_per_epoch", "discount", "gae_lambda", "center_adv",
               "positive_adv", "policy_ent_coeff", "use_softplus_entropy",
               "stop_entropy_gradient", "entropy_method", "optimizer"}
        /\ \A n \in DOMAIN super_kwargs \ {"optimizer"} :
              super_kwargs[n] = IF n \in DOMAIN init_kwargs THEN init_kwargs[n]
                                ELSE Defaults[n]
        /\ "max_kl_step" \notin DOMAIN super_kwargs
        /\ super_kwargs["optimizer"].kwargs["max_constraint_value"] = GivenMaxKlStep

\* a trainer has been constructed with two optional arguments given, neither
\* with its default value
C9_Witness ==
    /\ pc # "new"
    /\ \E m, n \in OptionalNames \ {"max_kl_step"} :
          /\ m # n
          /\ {m, n} \subseteq DOMAIN init_kwargs
          /\ init_kwargs[m] # Defaults[m]
          /\ init_kwargs[n] # Defaults[n]
          /\ super_kwargs[m] = init_kwargs[m]
          /\ super_kwargs[n] = init_kwargs[n]

\* C10: TRPO catches no failure: when a log_likelihood call raises,
\* _compute_objective ends with that failure; when the optimizer's step
\* raises, or a closure raises inside it, _optimize ends with that same
\* failure, makes no further step call and does not return normally.
C10_FailuresPropagate ==
    /\ objective.outcome.kind # "none" =>
          IF objective.fault.old # None
          THEN objective.outcome = Raise(objective.fault.old)
          ELSE IF objective.fault.new # None
          THEN objective.outcome = Raise(objective.fault.new)
          ELSE objective.outcome.kind = "return"
    /\ \A k \in DOMAIN evals :
          evals[k].result.kind = "raise" =>
              /\ k = Len(evals)
              /\ step_outcome = evals[k].result
    /\ Ended /\ step_outcome.kind = "raise" =>
          /\ outcome = step_outcome
          /\ pc = "failed"
          /\ step_calls = 1
    /\ pc = "optimized" => step_outcome.kind = "return"

\* a log_likelihood failure inside the loss closure has ended _optimize
C10_Witness ==
    /\ pc = "failed"
    /\ outcome.kind = "raise"
    /\ evals # <<>>
    /\ evals[Len(evals)].result.kind = "raise"
    /\ evals[Len(evals)].at # saved
    /\ outcome.exc = evals[Len(evals)].result.exc

====
